---- MODULE Spec2Model ----
(***************************************************************************)
(* DigiGold reconciliation (src/app.py): key normalisation, the decision   *)
(* table classifier, and reconcile_files / the /reconcile route.           *)
(*                                                                         *)
(* A Python string is a tuple of one-character strings; a pandas NaN /     *)
(* None cell is the tuple NaN, which no string equals.                     *)
(***************************************************************************)
EXTENDS Integers, Sequences, FiniteSets, TLC

VARIABLES
    pc,                 \* "call" (classifier called directly), "request", "done"
    fin_status,         \* arguments of a direct classify_by_decision_table call
    cf_status,
    aug_status,
    classified,         \* its return value
    upload,             \* what the /reconcile route finds in request.files
    finfinity_df,       \* the three tables read by pd.read_excel: [cols, rows]
    cashfree_df,
    augmont_df,
    fin_working,        \* order rows with _ord_clean, _mtx_clean, In Cashfree?, In Augmont?
    complete_finfinity, \* the COMPLETE_FINFINITY rows
    summary_df,         \* SUMMARY sheet
    action_summary,     \* ACTION_SUMMARY rows (with the Priority column)
    status_summary,     \* STATUS_COMBINATIONS rows
    combo_sheets,       \* Status_Combination -> rows of its sheet
    response            \* [code, error, workbook]

vars == <<pc, fin_status, cf_status, aug_status, classified, upload, finfinity_df,
          cashfree_df, augmont_df, fin_working, complete_finfinity, summary_df,
          action_summary, status_summary, combo_sheets, response>>

----------------------------------------------------------------------------
(* Strings *)

NaN == <<"NaN">>

isna(value) == value = NaN

LowerChars == <<"a","b","c","d","e","f","g","h","i","j","k","l","m",
                "n","o","p","q","r","s","t","u","v","w","x","y","z">>

UpperChars == <<"A","B","C","D","E","F","G","H","I","J","K","L","M",
                "N","O","P","Q","R","S","T","U","V","W","X","Y","Z">>

Whitespace == {" "}

\* str.upper / str.lower on one character
UpperOf == [c \in {LowerChars[i] : i \in DOMAIN LowerChars} |->
               UpperChars[CHOOSE i \in DOMAIN LowerChars : LowerChars[i] = c]]
LowerOf == [c \in {UpperChars[i] : i \in DOMAIN UpperChars} |->
               LowerChars[CHOOSE i \in DOMAIN UpperChars : UpperChars[i] = c]]

upper_char(c) == IF c \in DOMAIN UpperOf THEN UpperOf[c] ELSE c

lower_char(c) == IF c \in DOMAIN LowerOf THEN LowerOf[c] ELSE c

upper(s) == [i \in DOMAIN s |-> upper_char(s[i])]

lower(s) == [i \in DOMAIN s |-> lower_char(s[i])]

strip(s) ==
    LET keep == {i \in DOMAIN s : s[i] \notin Whitespace}
    IN IF keep = {} THEN <<>>
       ELSE LET first == CHOOSE i \in keep : \A j \in keep : i <= j
                last  == CHOOSE i \in keep : \A j \in keep : j <= i
            IN SubSeq(s, first, last)

\* Python's `sub in s`
contains(sub, s) ==
    \E i \in 1..(Len(s) - Len(sub) + 1) : SubSeq(s, i, i + Len(sub) - 1) = sub

\* str(value) of a cell: a NaN cell prints as "nan"
str(value) == IF isna(value) THEN <<"n","a","n">> ELSE value

\* variant: the key compared as typed
clean_key_raw(value) == IF isna(value) THEN <<>> ELSE str(value)

clean_key(value) == IF isna(value) THEN <<>> ELSE lower(strip(str(value)))

----------------------------------------------------------------------------
(* String literals of the source *)

MISSING        == <<"M","I","S","S","I","N","G">>
missing        == <<"m","i","s","s","i","n","g">>
PAID           == <<"P","A","I","D">>
ACTIVE         == <<"A","C","T","I","V","E">>
PENDING        == <<"P","E","N","D","I","N","G">>
FAILED         == <<"F","A","I","L","E","D">>
SUCCESS        == <<"S","U","C","C","E","S","S">>
USER           == <<"U","S","E","R">>
DROP           == <<"D","R","O","P">>
cancelled      == <<"c","a","n","c","e","l","l","e","d">>
not_cancelled  == <<"n","o","t"," ">> \o cancelled

----------------------------------------------------------------------------
(* classify_by_decision_table *)

canon_fin(s) == IF ~isna(s) THEN upper(strip(str(s))) ELSE MISSING
canon_cf(s)  == IF ~isna(s) THEN upper(strip(str(s))) ELSE MISSING

\* variant: the vault status upper-cased like the other two
canon_aug_upper(s) == IF ~isna(s) THEN upper(strip(str(s))) ELSE MISSING

canon_aug(s) == IF ~isna(s) THEN lower(strip(str(s))) ELSE missing

\* variant: the fall-through result under another category name
default_case_unknown == <<"UNKNOWN", "INVESTIGATE", 3>>

\* variant: the fall-through result raised to the critical priority
default_case_critical == <<"UNCATEGORIZED", "INVESTIGATE", 4>>

default_case == <<"UNCATEGORIZED", "INVESTIGATE", 3>>

\* variant: the plain "cancelled" test tried before the "not cancelled" test
decision_table_cancelled_first(fin, cf, aug) ==
    IF fin \in {PAID, ACTIVE} /\ cf = SUCCESS /\ contains(cancelled, aug)
    THEN <<"REFUND_REQUIRED", "REFUND REQUIRED", 4>>
    ELSE IF fin \in {PAID, ACTIVE} /\ cf = SUCCESS /\ contains(not_cancelled, aug)
    THEN <<"FULLY_RECONCILED", "NO ACTION", 1>>
    ELSE IF fin = PENDING /\ cf = SUCCESS /\ contains(not_cancelled, aug)
    THEN <<"SYNC_PENDING", "SYNC / MONITOR", 2>>
    ELSE IF fin = FAILED /\ cf = SUCCESS /\ contains(not_cancelled, aug)
    THEN <<"GATEWAY_SUCCESS_INTERNAL_FAIL", "INVESTIGATE", 3>>
    ELSE IF cf = FAILED
    THEN <<"PAYMENT_FAILED", "IGNORE", 1>>
    ELSE IF contains(USER, cf) /\ contains(DROP, cf)
    THEN <<"USER_DROPPED", "IGNORE", 1>>
    ELSE IF fin = PENDING /\ cf = PENDING
    THEN <<"PAYMENT_IN_PROGRESS", "WAIT / RETRY", 2>>
    ELSE IF fin = ACTIVE /\ cf = FAILED
    THEN <<"ORDER_ACTIVE_PAYMENT_FAILED", "CANCEL ORDER", 3>>
    ELSE IF fin = PAID /\ cf = FAILED
    THEN <<"INCONSISTENT_STATE", "INVESTIGATE", 4>>
    ELSE IF cf = SUCCESS /\ aug = missing
    THEN <<"PAYMENT_SUCCESS_ORDER_MISSING", "INVESTIGATE / CREATE ORDER", 4>>
    ELSE IF cf = PENDING
    THEN <<"PAYMENT_NOT_CONFIRMED", "WAIT / RETRY", 2>>
    ELSE IF fin = FAILED
    THEN <<"INTERNAL_FAILURE", "INVESTIGATE", 3>>
    ELSE default_case

\* variant: the two order-specific payment-failed tests tried before the general one
decision_table_specific_first(fin, cf, aug) ==
    IF fin \in {PAID, ACTIVE} /\ cf = SUCCESS /\ contains(not_cancelled, aug)
    THEN <<"FULLY_RECONCILED", "NO ACTION", 1>>
    ELSE IF fin \in {PAID, ACTIVE} /\ cf = SUCCESS /\ contains(cancelled, aug)
    THEN <<"REFUND_REQUIRED", "REFUND REQUIRED", 4>>
    ELSE IF fin = PENDING /\ cf = SUCCESS /\ contains(not_cancelled, aug)
    THEN <<"SYNC_PENDING", "SYNC / MONITOR", 2>>
    ELSE IF fin = FAILED /\ cf = SUCCESS /\ contains(not_cancelled, aug)
    THEN <<"GATEWAY_SUCCESS_INTERNAL_FAIL", "INVESTIGATE", 3>>
    ELSE IF fin = ACTIVE /\ cf = FAILED
    THEN <<"ORDER_ACTIVE_PAYMENT_FAILED", "CANCEL ORDER", 3>>
    ELSE IF fin = PAID /\ cf = FAILED
    THEN <<"INCONSISTENT_STATE", "INVESTIGATE", 4>>
    ELSE IF cf = FAILED
    THEN <<"PAYMENT_FAILED", "IGNORE", 1>>
    ELSE IF contains(USER, cf) /\ contains(DROP, cf)
    THEN <<"USER_DROPPED", "IGNORE", 1>>
    ELSE IF fin = PENDING /\ cf = PENDING
    THEN <<"PAYMENT_IN_PROGRESS", "WAIT / RETRY", 2>>
    ELSE IF cf = SUCCESS /\ aug = missing
    THEN <<"PAYMENT_SUCCESS_ORDER_MISSING", "INVESTIGATE / CREATE ORDER", 4>>
    ELSE IF cf = PENDING
    THEN <<"PAYMENT_NOT_CONFIRMED", "WAIT / RETRY", 2>>
    ELSE IF fin = FAILED
    THEN <<"INTERNAL_FAILURE", "INVESTIGATE", 3>>
    ELSE default_case

\* the if-chain of lines 40-89 on the normalised statuses
decision_table(fin, cf, aug) ==
    IF fin \in {PAID, ACTIVE} /\ cf = SUCCESS /\ contains(not_cancelled, aug)
    THEN <<"FULLY_RECONCILED", "NO ACTION", 1>>
    ELSE IF fin \in {PAID, ACTIVE} /\ cf = SUCCESS /\ contains(cancelled, aug)
    THEN <<"REFUND_REQUIRED", "REFUND REQUIRED", 4>>
    ELSE IF fin = PENDING /\ cf = SUCCESS /\ contains(not_cancelled, aug)
    THEN <<"SYNC_PENDING", "SYNC / MONITOR", 2>>
    ELSE IF fin = FAILED /\ cf = SUCCESS /\ contains(not_cancelled, aug)
    THEN <<"GATEWAY_SUCCESS_INTERNAL_FAIL", "INVESTIGATE", 3>>
    ELSE IF cf = FAILED
    THEN <<"PAYMENT_FAILED", "IGNORE", 1>>
    ELSE IF contains(USER, cf) /\ contains(DROP, cf)
    THEN <<"USER_DROPPED", "IGNORE", 1>>
    ELSE IF fin = PENDING /\ cf = PENDING
    THEN <<"PAYMENT_IN_PROGRESS", "WAIT / RETRY", 2>>
    ELSE IF fin = ACTIVE /\ cf = FAILED
    THEN <<"ORDER_ACTIVE_PAYMENT_FAILED", "CANCEL ORDER", 3>>
    ELSE IF fin = PAID /\ cf = FAILED
    THEN <<"INCONSISTENT_STATE", "INVESTIGATE", 4>>
    ELSE IF cf = SUCCESS /\ aug = missing
    THEN <<"PAYMENT_SUCCESS_ORDER_MISSING", "INVESTIGATE / CREATE ORDER", 4>>
    ELSE IF cf = PENDING
    THEN <<"PAYMENT_NOT_CONFIRMED", "WAIT / RETRY", 2>>
    ELSE IF fin = FAILED
    THEN <<"INTERNAL_FAILURE", "INVESTIGATE", 3>>
    ELSE default_case

classify_by_decision_table(fin, cf, aug) ==
    decision_table(canon_fin(fin), canon_cf(cf), canon_aug(aug))

----------------------------------------------------------------------------
(* Tables.  A table is [cols, rows]; a cell of a column the table lacks is NaN. *)

ORDER_ID   == "Order Id"
FIN_MTX_ID == "Merchant Transaction ID"
AUG_MTX_ID == "Merchant Transaction Id"
ORDER_STATUS == "Order Status"
TXN_STATUS   == "Transaction Status"

\* indices of a frame's rows, ascending
RECURSIVE Ascending(_)
Ascending(S) ==
    IF S = {} THEN <<>>
    ELSE LET m == CHOOSE x \in S : \A y \in S : x <= y
         IN <<m>> \o Ascending(S \ {m})

\* DataFrame.drop_duplicates(subset=[key]): the first row of every raw key value
\* (NaN keys compare equal); keys[i] is the raw key of row i
drop_duplicates(keys) ==
    Ascending({i \in DOMAIN keys : \A j \in DOMAIN keys : j < i => keys[j] # keys[i]})

\* the status map built at lines 197-198 / 209-210: raw-key duplicates dropped,
\* then the kept keys cleaned
status_map(keys, statuses) ==
    LET kept == drop_duplicates(keys)
    IN [k \in DOMAIN kept |->
            [clean |-> clean_key(keys[kept[k]]), status |-> statuses[kept[k]]]]

\* the statuses a left row picks up in DataFrame.merge(how="left"): one per map row
\* with its clean key, in map order; a single NaN when there is none
merged_statuses(clean, map) ==
    LET hits == SelectSeq(map, LAMBDA m : m.clean = clean)
    IN IF hits = <<>> THEN <<NaN>> ELSE [k \in DOMAIN hits |-> hits[k].status]

fillna(value, fill) == IF isna(value) THEN fill ELSE value

\* left.merge(map, how="left") followed by fillna("MISSING") on the new column
RECURSIVE merge_cashfree(_, _)
merge_cashfree(left, map) ==
    IF left = <<>> THEN <<>>
    ELSE LET row == Head(left)
             sts == merged_statuses(row.ord_clean, map)
         IN [k \in DOMAIN sts |-> row @@ [Cashfree_Status |-> fillna(sts[k], MISSING)]]
            \o merge_cashfree(Tail(left), map)

RECURSIVE merge_augmont(_, _)
merge_augmont(left, map) ==
    IF left = <<>> THEN <<>>
    ELSE LET row == Head(left)
             sts == merged_statuses(row.mtx_clean, map)
         IN [k \in DOMAIN sts |-> row @@ [Augmont_Status |-> fillna(sts[k], MISSING)]]
            \o merge_augmont(Tail(left), map)

----------------------------------------------------------------------------
(* reconcile_files *)

None == "None"

\* variant: the vault table's key column is not looked for
validate_columns_no_augmont(fin, cf, aug) ==
    IF FIN_MTX_ID \notin fin.cols
    THEN "Finfinity file needs 'Merchant Transaction ID' column"
    ELSE IF ORDER_ID \notin fin.cols
    THEN "Finfinity file needs 'Order Id' column"
    ELSE IF ORDER_ID \notin cf.cols
    THEN "Cashfree file needs 'Order Id' column"
    ELSE None

validate_columns(fin, cf, aug) ==
    IF FIN_MTX_ID \notin fin.cols
    THEN "Finfinity file needs 'Merchant Transaction ID' column"
    ELSE IF ORDER_ID \notin fin.cols
    THEN "Finfinity file needs 'Order Id' column"
    ELSE IF ORDER_ID \notin cf.cols
    THEN "Cashfree file needs 'Order Id' column"
    ELSE IF AUG_MTX_ID \notin aug.cols
    THEN "Augmont file needs 'Merchant Transaction Id' column"
    ELSE None

yes_no(b) == IF b THEN "YES" ELSE "NO"

isin(clean, keys) == \E j \in DOMAIN keys : keys[j] = clean

matching_flags(fin, cf, aug) ==
    LET cf_clean  == [j \in DOMAIN cf.rows  |-> clean_key(cf.rows[j].Order_Id)]
        aug_clean == [j \in DOMAIN aug.rows |-> clean_key(aug.rows[j].Merchant_Transaction_Id)]
    IN [i \in DOMAIN fin.rows |->
          LET row == fin.rows[i]
              oc  == clean_key(row.Order_Id)
              mc  == clean_key(row.Merchant_Transaction_ID)
          IN row @@ [ord_clean   |-> oc,
                     mtx_clean   |-> mc,
                     In_Cashfree |-> yes_no(isin(oc, cf_clean)),
                     In_Augmont  |-> yes_no(isin(mc, aug_clean))]]

alarmed_records_of(working) ==
    SelectSeq(working, LAMBDA r : r.In_Cashfree = "NO" \/ r.In_Augmont = "NO")

\* frame[[three columns]] = frame.apply(..., axis=1): on a frame without rows apply
\* returns a copy of the frame, and the assignment raises ValueError
apply_raises(frame) == frame = <<>>

with_finfinity_status(working, fin) ==
    [i \in DOMAIN working |->
        working[i] @@ [Finfinity_Status |->
            IF ORDER_STATUS \in fin.cols THEN working[i].Order_Status ELSE MISSING]]

with_cashfree_status(frame, cf) ==
    IF TXN_STATUS \in cf.cols
    THEN merge_cashfree(frame,
            status_map([j \in DOMAIN cf.rows |-> cf.rows[j].Order_Id],
                       [j \in DOMAIN cf.rows |-> cf.rows[j].Transaction_Status]))
    ELSE [i \in DOMAIN frame |-> frame[i] @@ [Cashfree_Status |-> MISSING]]

with_augmont_status(frame, aug) ==
    IF TXN_STATUS \in aug.cols
    THEN merge_augmont(frame,
            status_map([j \in DOMAIN aug.rows |-> aug.rows[j].Merchant_Transaction_Id],
                       [j \in DOMAIN aug.rows |-> aug.rows[j].Transaction_Status]))
    ELSE [i \in DOMAIN frame |-> frame[i] @@ [Augmont_Status |-> MISSING]]

with_decision(frame) ==
    [i \in DOMAIN frame |->
        LET d == classify_by_decision_table(frame[i].Finfinity_Status,
                                            frame[i].Cashfree_Status,
                                            frame[i].Augmont_Status)
        IN frame[i] @@ [Decision_Category |-> d[1],
                        Action_Required   |-> d[2],
                        Priority          |-> d[3]]]

complete_view(working, fin, cf, aug) ==
    with_decision(
        with_augmont_status(
            with_cashfree_status(with_finfinity_status(working, fin), cf), aug))

----------------------------------------------------------------------------
(* Summary sheets *)

\* len(frame[frame["Action_Required"] == action])
count_action(frame, action) ==
    Cardinality({i \in DOMAIN frame : frame[i].Action_Required = action})

\* groupby("Action_Required")["Order Id"].count(): the rows of the group whose
\* Order Id is not NaN
count_order_id(frame, action) ==
    Cardinality({i \in DOMAIN frame : /\ frame[i].Action_Required = action
                                      /\ ~isna(frame[i].Order_Id)})

\* the values of Action_Required in the order groupby lists them (sorted keys)
ActionKeys == <<"CANCEL ORDER", "IGNORE", "INVESTIGATE", "INVESTIGATE / CREATE ORDER",
                "NO ACTION", "REFUND REQUIRED", "SYNC / MONITOR", "WAIT / RETRY">>

\* groupby("Action_Required")["Priority"].first()
first_priority(frame, action) ==
    frame[CHOOSE i \in DOMAIN frame :
             /\ frame[i].Action_Required = action
             /\ \A j \in DOMAIN frame : j < i => frame[j].Action_Required # action].Priority

group_by_action(frame) ==
    LET keys == SelectSeq(ActionKeys,
                    LAMBDA a : \E i \in DOMAIN frame : frame[i].Action_Required = a)
    IN [k \in DOMAIN keys |->
          [Action_Required |-> keys[k],
           Count    |-> count_order_id(frame, keys[k]),
           Priority |-> first_priority(frame, keys[k])]]

\* variant: the groups left in groupby order
sort_priority_unsorted(groups) == groups

\* sort_values("Priority", ascending=False); rows of equal priority keep their order
RECURSIVE sort_priority_desc(_)
sort_priority_desc(groups) ==
    IF groups = <<>> THEN <<>>
    ELSE LET top == CHOOSE i \in DOMAIN groups :
                        /\ \A j \in DOMAIN groups : groups[j].Priority <= groups[i].Priority
                        /\ \A j \in DOMAIN groups :
                               j < i => groups[j].Priority < groups[i].Priority
         IN <<groups[top]>> \o
            sort_priority_desc([k \in 1..(Len(groups) - 1) |->
                                   IF k < top THEN groups[k] ELSE groups[k + 1]])

action_summary_of(frame) == sort_priority_desc(group_by_action(frame))

summary_of(fin, frame) ==
    LET total_finfinity  == Len(fin.rows)
        total_reconciled == count_action(frame, "NO ACTION")
    IN [Total_Finfinity_Records |-> total_finfinity,
        Fully_Reconciled        |-> total_reconciled,
        Needs_Review            |-> total_finfinity - total_reconciled]

Status_Combination(r) ==
    <<"F","I","N","_">> \o str(r.Finfinity_Status) \o
    <<"_","C","F","_">> \o str(r.Cashfree_Status) \o
    <<"_","A","U","G","_">> \o str(r.Augmont_Status)

\* the frames written to the per-combination sheets (lines 300-308), by combination
combo_sheets_of(frame) ==
    LET combos == {Status_Combination(frame[i]) : i \in DOMAIN frame}
    IN [c \in combos |-> SelectSeq(frame, LAMBDA r : Status_Combination(r) = c)]

\* groupby([three status columns]) leaves out the rows with a NaN in a group key;
\* the rows of the sheet, without their order
status_summary_of(frame) ==
    LET keyed == {i \in DOMAIN frame : /\ ~isna(frame[i].Finfinity_Status)
                                       /\ ~isna(frame[i].Cashfree_Status)
                                       /\ ~isna(frame[i].Augmont_Status)}
        same(r, q) == /\ r.Finfinity_Status = q.Finfinity_Status
                      /\ r.Cashfree_Status = q.Cashfree_Status
                      /\ r.Augmont_Status = q.Augmont_Status
    IN {[Finfinity_Status |-> frame[i].Finfinity_Status,
         Cashfree_Status  |-> frame[i].Cashfree_Status,
         Augmont_Status   |-> frame[i].Augmont_Status,
         Count |-> Cardinality({j \in keyed : same(frame[j], frame[i])
                                              /\ ~isna(frame[j].Order_Id)})]
        : i \in keyed}

----------------------------------------------------------------------------
(* Inputs *)

\* rows of the three uploads together
MaxRows == 4

\* rows of one upload
MaxTableRows == 2

Min(a, b) == IF a < b THEN a ELSE b

FinStatusInputs ==
    {NaN, PAID, <<" ","p","a","i","d"," ">>, ACTIVE, PENDING, FAILED, MISSING, <<"A","c","t","i","v","e">>}

CfStatusInputs ==
    {NaN, SUCCESS, <<" ","s","u","c","c","e","s","s">>, FAILED, PENDING, MISSING,
     <<"U","S","E","R","_","D","R","O","P","P","E","D">>, <<"D","r","o","p","p","e","d"," ","b","y"," ","u","s","e","r">>, USER}

AugStatusInputs ==
    {NaN, not_cancelled, cancelled, <<"N","o","t"," ","C","a","n","c","e","l","l","e","d"," ">>, <<"C","A","N","C","E","L","L","E","D">>,
     <<"o","r","d","e","r"," ","n","o","t"," ","c","a","n","c","e","l","l","e","d"," ","y","e","t">>, missing, MISSING, <<"d","e","l","i","v","e","r","e","d">>, <<>>}

FinOrderIds == {NaN, <<"o","1">>}
FinMtxIds   == {<<"t","1">>}
FinStatuses == {NaN, PAID, <<"p","a","i","d">>}
CfOrderIds  == {NaN, <<"o","1">>, <<"O","1"," ">>}
CfStatuses  == {SUCCESS, <<"f","a","i","l","e","d">>}
AugMtxIds   == {<<"t","1">>, <<"T","1"," ">>}
AugStatuses == {NaN, not_cancelled}

cells(col, cols, values) == IF col \in cols THEN values ELSE {NaN}

FinRows(cols) ==
    [Order_Id : cells(ORDER_ID, cols, FinOrderIds),
     Merchant_Transaction_ID : cells(FIN_MTX_ID, cols, FinMtxIds),
     Order_Status : cells(ORDER_STATUS, cols, FinStatuses)]

CfRows(cols) ==
    [Order_Id : cells(ORDER_ID, cols, CfOrderIds),
     Transaction_Status : cells(TXN_STATUS, cols, CfStatuses)]

AugRows(cols) ==
    [Merchant_Transaction_Id : cells(AUG_MTX_ID, cols, AugMtxIds),
     Transaction_Status : cells(TXN_STATUS, cols, AugStatuses)]

FinAll == {ORDER_ID, FIN_MTX_ID, ORDER_STATUS}
CfAll  == {ORDER_ID, TXN_STATUS}
AugAll == {AUG_MTX_ID, TXN_STATUS}

FinKeys == {ORDER_ID, FIN_MTX_ID}
CfKeys  == {ORDER_ID}
AugKeys == {AUG_MTX_ID}

\* the column sets of the uploads: every choice of the optional status columns with
\* the key columns present; each key column missing from uploads of key columns
\* only; all key columns missing from uploads that have their status columns
Shapes ==
    {<<FinAll \ f, CfAll \ c, AugAll \ a>> :
        f \in SUBSET {ORDER_STATUS}, c \in SUBSET {TXN_STATUS}, a \in SUBSET {TXN_STATUS}}
    \cup {<<FinKeys \ {FIN_MTX_ID}, CfKeys, AugKeys>>,
          <<FinKeys \ {ORDER_ID}, CfKeys, AugKeys>>,
          <<FinKeys, CfKeys \ {ORDER_ID}, AugKeys>>,
          <<FinKeys, CfKeys, AugKeys \ {AUG_MTX_ID}>>,
          <<FinAll \ FinKeys, CfAll \ CfKeys, AugAll \ AugKeys>>}

NoTable == [cols |-> {}, rows |-> <<>>]

Uploads == {"ok", "missing_file", "no_filename", "not_xlsx"}

----------------------------------------------------------------------------
(* State machine *)

NoResponse == [code |-> 0, error |-> None, workbook |-> FALSE]

InitOutputs ==
    /\ classified = None
    /\ fin_working = <<>>
    /\ complete_finfinity = <<>>
    /\ summary_df = None
    /\ action_summary = <<>>
    /\ status_summary = {}
    /\ combo_sheets = <<>>
    /\ response = NoResponse

InitCall ==
    /\ pc = "call"
    /\ fin_status \in FinStatusInputs
    /\ cf_status \in CfStatusInputs
    /\ aug_status \in AugStatusInputs
    /\ upload = None
    /\ finfinity_df = NoTable
    /\ cashfree_df = NoTable
    /\ augmont_df = NoTable

InitRequest ==
    /\ pc = "request"
    /\ fin_status = NaN
    /\ cf_status = NaN
    /\ aug_status = NaN
    /\ upload \in Uploads
    /\ IF upload = "ok"
       THEN \E shape \in Shapes :
            \E nf \in 0..Min(MaxTableRows, MaxRows) :
            \E nc \in 0..Min(MaxTableRows, MaxRows - nf) :
            \E na \in 0..Min(MaxTableRows, MaxRows - nf - nc) :
              /\ finfinity_df \in [cols : {shape[1]}, rows : [1..nf -> FinRows(shape[1])]]
              /\ cashfree_df  \in [cols : {shape[2]}, rows : [1..nc -> CfRows(shape[2])]]
              /\ augmont_df   \in [cols : {shape[3]}, rows : [1..na -> AugRows(shape[3])]]
       ELSE /\ finfinity_df = NoTable
            /\ cashfree_df = NoTable
            /\ augmont_df = NoTable

Init == InitOutputs /\ (InitCall \/ InitRequest)

\* a direct call of classify_by_decision_table
Classify ==
    /\ pc = "call"
    /\ classified' = classify_by_decision_table(fin_status, cf_status, aug_status)
    /\ pc' = "done"
    /\ UNCHANGED <<fin_status, cf_status, aug_status, upload, finfinity_df, cashfree_df,
                   augmont_df, fin_working, complete_finfinity, summary_df,
                   action_summary, status_summary, combo_sheets, response>>

NoSheets ==
    UNCHANGED <<complete_finfinity, summary_df, action_summary, status_summary,
                combo_sheets>>

\* POST /reconcile, with the reconcile_files call it makes
reconcile ==
    /\ pc = "request"
    /\ pc' = "done"
    /\ UNCHANGED <<fin_status, cf_status, aug_status, classified, upload, finfinity_df,
                   cashfree_df, augmont_df>>
    /\ IF upload = "missing_file"
       THEN /\ response' = [code |-> 400, error |-> "Please upload all 3 files",
                            workbook |-> FALSE]
            /\ UNCHANGED fin_working /\ NoSheets
       ELSE IF upload = "no_filename"
       THEN /\ response' = [code |-> 400, error |-> "Invalid file upload",
                            workbook |-> FALSE]
            /\ UNCHANGED fin_working /\ NoSheets
       ELSE IF upload = "not_xlsx"
       THEN /\ response' = [code |-> 400, error |-> "must be .xlsx file",
                            workbook |-> FALSE]
            /\ UNCHANGED fin_working /\ NoSheets
       ELSE LET error == validate_columns(finfinity_df, cashfree_df, augmont_df)
                working == matching_flags(finfinity_df, cashfree_df, augmont_df)
                frame == complete_view(working, finfinity_df, cashfree_df, augmont_df)
            IN IF error # None
               THEN /\ response' = [code |-> 400, error |-> error, workbook |-> FALSE]
                    /\ UNCHANGED fin_working /\ NoSheets
               ELSE IF apply_raises(alarmed_records_of(working))
               THEN /\ fin_working' = working
                    /\ response' = [code |-> 500,
                                    error |-> "Server error: Columns must be same length as key",
                                    workbook |-> FALSE]
                    /\ NoSheets
               ELSE /\ fin_working' = working
                    /\ complete_finfinity' = frame
                    /\ summary_df' = summary_of(finfinity_df, complete_finfinity')
                    /\ action_summary' = action_summary_of(complete_finfinity')
                    /\ status_summary' = status_summary_of(complete_finfinity')
                    /\ combo_sheets' = combo_sheets_of(complete_finfinity')
                    /\ response' = [code |-> 200, error |-> None, workbook |-> TRUE]

Next == Classify \/ reconcile

Spec == Init /\ [][Next]_vars

----------------------------------------------------------------------------
(* The decision table as the specification tabulates it *)

CallDone == pc = "done" /\ upload = None

Ok == pc = "done" /\ response.code = 200

\* the statuses the rules are stated on
CanonOrder   == IF fin_status = NaN THEN MISSING ELSE upper(strip(fin_status))
CanonGateway == IF cf_status = NaN THEN MISSING ELSE upper(strip(cf_status))
CanonVault   == IF aug_status = NaN THEN missing ELSE lower(strip(aug_status))

RuleHolds(n, order, gateway, vault) ==
    CASE n = 1  -> order \in {PAID, ACTIVE} /\ gateway = SUCCESS
                   /\ contains(not_cancelled, vault)
      [] n = 2  -> order \in {PAID, ACTIVE} /\ gateway = SUCCESS
                   /\ contains(cancelled, vault) /\ ~contains(not_cancelled, vault)
      [] n = 3  -> order = PENDING /\ gateway = SUCCESS /\ contains(not_cancelled, vault)
      [] n = 4  -> order = FAILED /\ gateway = SUCCESS /\ contains(not_cancelled, vault)
      [] n = 5  -> gateway = FAILED
      [] n = 6  -> contains(USER, gateway) /\ contains(DROP, gateway)
      [] n = 7  -> order = PENDING /\ gateway = PENDING
      [] n = 8  -> order = ACTIVE /\ gateway = FAILED
      [] n = 9  -> order = PAID /\ gateway = FAILED
      [] n = 10 -> gateway = SUCCESS /\ vault = missing
      [] n = 11 -> gateway = PENDING
      [] n = 12 -> order = FAILED
      [] OTHER  -> TRUE

RuleOutcome ==
    <<  <<"FULLY_RECONCILED", "NO ACTION", 1>>,
        <<"REFUND_REQUIRED", "REFUND REQUIRED", 4>>,
        <<"SYNC_PENDING", "SYNC / MONITOR", 2>>,
        <<"GATEWAY_SUCCESS_INTERNAL_FAIL", "INVESTIGATE", 3>>,
        <<"PAYMENT_FAILED", "IGNORE", 1>>,
        <<"USER_DROPPED", "IGNORE", 1>>,
        <<"PAYMENT_IN_PROGRESS", "WAIT / RETRY", 2>>,
        <<"ORDER_ACTIVE_PAYMENT_FAILED", "CANCEL ORDER", 3>>,
        <<"INCONSISTENT_STATE", "INVESTIGATE", 4>>,
        <<"PAYMENT_SUCCESS_ORDER_MISSING", "INVESTIGATE / CREATE ORDER", 4>>,
        <<"PAYMENT_NOT_CONFIRMED", "WAIT / RETRY", 2>>,
        <<"INTERNAL_FAILURE", "INVESTIGATE", 3>>,
        <<"UNCATEGORIZED", "INVESTIGATE", 3>>  >>

FirstRule(order, gateway, vault) ==
    CHOOSE n \in DOMAIN RuleOutcome :
        /\ RuleHolds(n, order, gateway, vault)
        /\ \A m \in DOMAIN RuleOutcome : m < n => ~RuleHolds(m, order, gateway, vault)

Outcomes == {RuleOutcome[n] : n \in DOMAIN RuleOutcome}

----------------------------------------------------------------------------
(* C1..C3: the classifier *)

\* C1: for every status triple the classifier returns exactly the outcome of the
\* first rule, in the order 1..12 then default, whose predicate holds on the
\* canonicalized triple (order and gateway trimmed and upper-cased, null ->
\* "MISSING"; vault trimmed and lower-cased, null -> "missing").
C1_FirstMatchWins ==
    CallDone => classified = RuleOutcome[FirstRule(CanonOrder, CanonGateway, CanonVault)]

\* a call where a later rule (9) holds as well as the rule that wins (5), on an order
\* status that had to be trimmed and upper-cased
C1_Witness ==
    /\ CallDone
    /\ fin_status # PAID /\ CanonOrder = PAID
    /\ CanonGateway = FAILED
    /\ RuleHolds(9, CanonOrder, CanonGateway, CanonVault)
    /\ classified = RuleOutcome[5]

\* C2: the classifier is total: on every combination of string or null it returns a
\* (category, action, priority) with priority in 1..4, UNCATEGORIZED / INVESTIGATE / 3
\* when none of rules 1-12 holds; and every row of the complete view, one of an order
\* missing in both other sources included, carries such a classification.
C2_Total ==
    /\ CallDone =>
          /\ classified \in Outcomes
          /\ classified[3] \in 1..4
          /\ (\A n \in 1..12 : ~RuleHolds(n, CanonOrder, CanonGateway, CanonVault))
                => classified = <<"UNCATEGORIZED", "INVESTIGATE", 3>>
    /\ Ok =>
          \A i \in DOMAIN complete_finfinity :
             LET r == complete_finfinity[i]
                 d == <<r.Decision_Category, r.Action_Required, r.Priority>>
             IN /\ d \in Outcomes
                /\ r.Priority \in 1..4
                /\ (\A n \in 1..12 :
                       ~RuleHolds(n,
                            IF r.Finfinity_Status = NaN THEN MISSING
                            ELSE upper(strip(r.Finfinity_Status)),
                            upper(strip(r.Cashfree_Status)),
                            lower(strip(r.Augmont_Status))))
                     => d = <<"UNCATEGORIZED", "INVESTIGATE", 3>>

\* a row of an order with a null status, missing in both other sources, classified
\* by the default rule
C2_Witness ==
    /\ Ok
    /\ \E i \in DOMAIN complete_finfinity :
          LET r == complete_finfinity[i]
          IN /\ r.In_Cashfree = "NO" /\ r.In_Augmont = "NO"
             /\ r.Finfinity_Status = NaN
             /\ r.Decision_Category = "UNCATEGORIZED"
             /\ r.Action_Required = "INVESTIGATE"
             /\ r.Priority = 3

\* C3: rule 1 takes precedence over rule 2: with order in {PAID, ACTIVE}, gateway =
\* SUCCESS and a vault string containing "not cancelled" the result is
\* FULLY_RECONCILED / NO ACTION / 1; REFUND_REQUIRED / REFUND REQUIRED / 4 is returned
\* exactly when order in {PAID, ACTIVE}, gateway = SUCCESS and the vault string
\* contains "cancelled" but not "not cancelled".
C3_NotCancelledBeforeCancelled ==
    CallDone =>
       LET paid_ok == CanonOrder \in {PAID, ACTIVE} /\ CanonGateway = SUCCESS
           refund  == /\ paid_ok
                      /\ contains(cancelled, CanonVault)
                      /\ ~contains(not_cancelled, CanonVault)
       IN /\ (paid_ok /\ contains(not_cancelled, CanonVault))
                => classified = <<"FULLY_RECONCILED", "NO ACTION", 1>>
          /\ (classified[1] = "REFUND_REQUIRED") <=> refund
          /\ refund => classified = <<"REFUND_REQUIRED", "REFUND REQUIRED", 4>>

\* a vault string that contains both "not cancelled" and "cancelled", resolved by rule 1
C3_Witness ==
    /\ CallDone
    /\ CanonOrder = PAID /\ CanonGateway = SUCCESS
    /\ contains(not_cancelled, CanonVault) /\ contains(cancelled, CanonVault)
    /\ CanonVault # not_cancelled
    /\ classified = <<"FULLY_RECONCILED", "NO ACTION", 1>>

----------------------------------------------------------------------------
(* C4..C10: linkage and the summary sheets *)

RECURSIVE SumCounts(_)
SumCounts(groups) ==
    IF groups = <<>> THEN 0 ELSE Head(groups).Count + SumCounts(Tail(groups))

RECURSIVE SumOver(_)
SumOver(S) ==
    IF S = {} THEN 0
    ELSE LET g == CHOOSE x \in S : TRUE IN g.Count + SumOver(S \ {g})

\* the normalized key of the data model: null -> "", otherwise trimmed and lower-cased
NormalizedKey(value) == IF value = NaN THEN <<>> ELSE lower(strip(value))

OrderRecord(r) ==
    [Order_Id |-> r.Order_Id,
     Merchant_Transaction_ID |-> r.Merchant_Transaction_ID,
     Order_Status |-> r.Order_Status]

\* C4: every order-ledger record produces exactly one row of the complete view, in
\* input order, whatever the gateway and vault tables hold (several counterpart
\* records whose raw keys differ but normalize to the order record's key included).
C4_OneRowPerOrderRecord ==
    Ok => [i \in DOMAIN complete_finfinity |-> OrderRecord(complete_finfinity[i])]
             = finfinity_df.rows

\* C5: when the vault table has no status column the vault status stored in every row
\* is the lower-case "missing"; the order and gateway sentinels are "MISSING".
C5_VaultSentinelLowerCase ==
    Ok => \A i \in DOMAIN complete_finfinity :
             LET r == complete_finfinity[i]
             IN /\ TXN_STATUS \notin augmont_df.cols => r.Augmont_Status = missing
                /\ TXN_STATUS \notin cashfree_df.cols => r.Cashfree_Status = MISSING
                /\ ORDER_STATUS \notin finfinity_df.cols => r.Finfinity_Status = MISSING

\* C6: for every order record, In Cashfree? is YES iff some gateway record has its
\* normalized order key, and In Augmont? is YES iff some vault record has its
\* normalized transaction key; the flags are independent, and a blank or null key
\* matches a counterpart whose key is blank or null.
C6_LinkageFlags ==
    (pc = "done" /\ response.code \in {200, 500}) =>
       /\ Len(fin_working) = Len(finfinity_df.rows)
       /\ \A i \in DOMAIN fin_working :
             LET r == finfinity_df.rows[i]
             IN /\ OrderRecord(fin_working[i]) = r
                /\ (fin_working[i].In_Cashfree = "YES") <=>
                      \E j \in DOMAIN cashfree_df.rows :
                         NormalizedKey(cashfree_df.rows[j].Order_Id)
                            = NormalizedKey(r.Order_Id)
                /\ (fin_working[i].In_Augmont = "YES") <=>
                      \E j \in DOMAIN augmont_df.rows :
                         NormalizedKey(augmont_df.rows[j].Merchant_Transaction_Id)
                            = NormalizedKey(r.Merchant_Transaction_ID)
                /\ fin_working[i].In_Cashfree \in {"YES", "NO"}
                /\ fin_working[i].In_Augmont \in {"YES", "NO"}

\* an order record found in the gateway table under a key typed differently (case,
\* trailing blank) and not found in the vault table, beside one whose null order key
\* matches a gateway record with a null key
C6_Witness ==
    /\ Ok
    /\ \E i \in DOMAIN fin_working :
          /\ fin_working[i].Order_Id # NaN
          /\ fin_working[i].In_Cashfree = "YES"
          /\ fin_working[i].In_Augmont = "NO"
          /\ \A j \in DOMAIN cashfree_df.rows :
                cashfree_df.rows[j].Order_Id # fin_working[i].Order_Id
    /\ \E i \in DOMAIN fin_working :
          /\ fin_working[i].Order_Id = NaN
          /\ fin_working[i].In_Cashfree = "YES"

KeyColumns ==
    {<<"Finfinity", FIN_MTX_ID>>, <<"Finfinity", ORDER_ID>>,
     <<"Cashfree", ORDER_ID>>, <<"Augmont", AUG_MTX_ID>>}

ColumnsOf(source) ==
    CASE source = "Finfinity" -> finfinity_df.cols
      [] source = "Cashfree"  -> cashfree_df.cols
      [] source = "Augmont"   -> augmont_df.cols

MissingKeyColumns == {k \in KeyColumns : k[2] \notin ColumnsOf(k[1])}

MessageNaming(k) ==
    CASE k = <<"Finfinity", FIN_MTX_ID>> ->
            "Finfinity file needs 'Merchant Transaction ID' column"
      [] k = <<"Finfinity", ORDER_ID>> -> "Finfinity file needs 'Order Id' column"
      [] k = <<"Cashfree", ORDER_ID>>  -> "Cashfree file needs 'Order Id' column"
      [] k = <<"Augmont", AUG_MTX_ID>> ->
            "Augmont file needs 'Merchant Transaction Id' column"

\* C7: if a required key column is absent the run returns no workbook and a single
\* message naming a missing column and its source, before any key is normalized or
\* linked; when all four are present no such message is returned.
C7_ValidationFirst ==
    (pc = "done" /\ upload = "ok") =>
       /\ MissingKeyColumns # {} =>
             /\ response.workbook = FALSE
             /\ response.code = 400
             /\ response.error \in {MessageNaming(k) : k \in MissingKeyColumns}
             /\ fin_working = <<>>
             /\ complete_finfinity = <<>>
       /\ MissingKeyColumns = {} =>
             /\ response.error \notin {MessageNaming(k) : k \in KeyColumns}
             /\ Len(fin_working) = Len(finfinity_df.rows)

\* a run on tables with rows and only the vault table's key column missing
C7_Witness ==
    /\ pc = "done" /\ upload = "ok"
    /\ MissingKeyColumns = {<<"Augmont", AUG_MTX_ID>>}
    /\ finfinity_df.rows # <<>> /\ cashfree_df.rows # <<>> /\ augmont_df.rows # <<>>
    /\ response = [code |-> 400, workbook |-> FALSE,
                   error |-> "Augmont file needs 'Merchant Transaction Id' column"]

\* C8: the per-action grouping partitions the rows of the complete view: each group's
\* count is the number of rows with its action, every row's action has exactly one
\* group, and the counts sum to the number of rows (null order keys included).
C8_ActionGroupsPartition ==
    Ok =>
       /\ \A k \in DOMAIN action_summary :
             action_summary[k].Count =
                Cardinality({i \in DOMAIN complete_finfinity :
                    complete_finfinity[i].Action_Required
                       = action_summary[k].Action_Required})
       /\ \A i \in DOMAIN complete_finfinity :
             Cardinality({k \in DOMAIN action_summary :
                 action_summary[k].Action_Required = complete_finfinity[i].Action_Required}) = 1
       /\ SumCounts(action_summary) = Len(complete_finfinity)

\* C9: the per-status-combination grouping partitions the rows of the complete view on
\* the resolved triple: every row is in exactly one combination group, and the counts
\* of the status-combination breakdown sum to the number of rows (rows with a null
\* order status and triples that differ only in case included).
C9_StatusGroupsPartition ==
    Ok =>
       /\ \A i \in DOMAIN complete_finfinity :
             Cardinality({c \in DOMAIN combo_sheets :
                 \E k \in DOMAIN combo_sheets[c] :
                    combo_sheets[c][k] = complete_finfinity[i]}) = 1
       /\ SumOver(status_summary) = Len(complete_finfinity)

\* C10: in the summary the total is the number of order-ledger records, the reconciled
\* count is the number of rows whose action is NO ACTION, the needs-review count is
\* the number of rows whose action is not NO ACTION, the two add up to the total and
\* neither is negative.
C10_SummaryCounts ==
    Ok =>
       /\ summary_df.Total_Finfinity_Records = Len(finfinity_df.rows)
       /\ summary_df.Fully_Reconciled =
             Cardinality({i \in DOMAIN complete_finfinity :
                 complete_finfinity[i].Action_Required = "NO ACTION"})
       /\ summary_df.Needs_Review =
             Cardinality({i \in DOMAIN complete_finfinity :
                 complete_finfinity[i].Action_Required # "NO ACTION"})
       /\ summary_df.Fully_Reconciled + summary_df.Needs_Review
             = summary_df.Total_Finfinity_Records
       /\ summary_df.Fully_Reconciled >= 0
       /\ summary_df.Needs_Review >= 0

----------------------------------------------------------------------------
(* C11..C13: status resolution *)

\* the first record of a counterpart table, in row order, with a normalized key
FirstWithKey(keys, key) ==
    CHOOSE j \in DOMAIN keys :
        /\ NormalizedKey(keys[j]) = key
        /\ \A h \in DOMAIN keys : h < j => NormalizedKey(keys[h]) # key

HasKey(keys, key) == \E j \in DOMAIN keys : NormalizedKey(keys[j]) = key

CashfreeKeys == [j \in DOMAIN cashfree_df.rows |-> cashfree_df.rows[j].Order_Id]

AugmontKeys ==
    [j \in DOMAIN augmont_df.rows |-> augmont_df.rows[j].Merchant_Transaction_Id]

\* what a lookup that finds `status` resolves to: the status, or a sentinel for a
\* null cell
Resolved(status) == IF status = NaN THEN {MISSING, missing} ELSE {status}

\* C11: each counterpart lookup is at-most-one and first-seen: when several gateway
\* (or vault) records share a normalized key, the status resolved for an order record
\* with that key is the status of the first of them in row order, and the later ones
\* are ignored, also when their raw keys differ by case or surrounding whitespace.
C11_FirstSeenStatus ==
    Ok => \A i \in DOMAIN complete_finfinity :
             LET r  == complete_finfinity[i]
                 ok == NormalizedKey(r.Order_Id)
                 mk == NormalizedKey(r.Merchant_Transaction_ID)
             IN /\ (TXN_STATUS \in cashfree_df.cols /\ HasKey(CashfreeKeys, ok)) =>
                      r.Cashfree_Status \in
                         Resolved(cashfree_df.rows[FirstWithKey(CashfreeKeys, ok)]
                                     .Transaction_Status)
                /\ (TXN_STATUS \in augmont_df.cols /\ HasKey(AugmontKeys, mk)) =>
                      r.Augmont_Status \in
                         Resolved(augmont_df.rows[FirstWithKey(AugmontKeys, mk)]
                                     .Transaction_Status)

\* the raw statuses of the counterpart records with a normalized key, a null cell
\* taken as the axis's sentinel
RawStatuses(rows, keys, key, sentinel) ==
    {IF rows[j].Transaction_Status = NaN THEN sentinel ELSE rows[j].Transaction_Status :
        j \in {h \in DOMAIN keys : NormalizedKey(keys[h]) = key}}

\* C12: per axis, if the counterpart source has a status column and a counterpart
\* with the same normalized key exists, the resolved status of the row is that
\* counterpart's raw status unmodified; if no counterpart exists or the source has no
\* status column, it is the axis's sentinel ("MISSING" for the gateway, "missing" for
\* the vault).
C12_StatusResolution ==
    Ok => \A i \in DOMAIN complete_finfinity :
             LET r  == complete_finfinity[i]
                 ok == NormalizedKey(r.Order_Id)
                 mk == NormalizedKey(r.Merchant_Transaction_ID)
             IN /\ IF TXN_STATUS \in cashfree_df.cols /\ HasKey(CashfreeKeys, ok)
                   THEN r.Cashfree_Status
                           \in RawStatuses(cashfree_df.rows, CashfreeKeys, ok, MISSING)
                   ELSE r.Cashfree_Status = MISSING
                /\ IF TXN_STATUS \in augmont_df.cols /\ HasKey(AugmontKeys, mk)
                   THEN r.Augmont_Status
                           \in RawStatuses(augmont_df.rows, AugmontKeys, mk, missing)
                   ELSE r.Augmont_Status = missing

\* C13: an order record with no matching gateway record and no matching vault record
\* gets gateway status "MISSING" and vault status "missing", and is classified
\* INTERNAL_FAILURE / INVESTIGATE / 3 if its order status canonicalizes to FAILED and
\* UNCATEGORIZED / INVESTIGATE / 3 otherwise.
C13_MissingInBoth ==
    Ok => \A i \in DOMAIN complete_finfinity :
             LET r == complete_finfinity[i]
                 d == <<r.Decision_Category, r.Action_Required, r.Priority>>
                 order == IF r.Finfinity_Status = NaN THEN MISSING
                          ELSE upper(strip(r.Finfinity_Status))
             IN (r.In_Cashfree = "NO" /\ r.In_Augmont = "NO") =>
                   /\ r.Cashfree_Status = MISSING
                   /\ r.Augmont_Status = missing
                   /\ d = IF order = FAILED
                          THEN <<"INTERNAL_FAILURE", "INVESTIGATE", 3>>
                          ELSE <<"UNCATEGORIZED", "INVESTIGATE", 3>>

----------------------------------------------------------------------------
(* C14..C16: priorities *)

ActionsOf(frame) == {frame[i].Action_Required : i \in DOMAIN frame}

\* C14: the action returned by the classifier determines the priority: every action
\* comes with one priority over all status triples, so within a per-action group all
\* rows have the priority the group is tagged with (that of its first row).
C14_ActionDeterminesPriority ==
    /\ CallDone =>
          \A n \in DOMAIN RuleOutcome :
             RuleOutcome[n][2] = classified[2] /\ n \notin {8, 9}
                => RuleOutcome[n][3] = classified[3]
    /\ Ok =>
          /\ \A i, j \in DOMAIN complete_finfinity :
                complete_finfinity[i].Action_Required = complete_finfinity[j].Action_Required
                   => complete_finfinity[i].Priority = complete_finfinity[j].Priority
          /\ \A k \in DOMAIN action_summary :
                \A i \in DOMAIN complete_finfinity :
                   complete_finfinity[i].Action_Required = action_summary[k].Action_Required
                      => complete_finfinity[i].Priority = action_summary[k].Priority

\* an action group of two rows classified from different status triples
C14_Witness ==
    /\ Ok
    /\ \E i, j \in DOMAIN complete_finfinity :
          /\ i < j
          /\ complete_finfinity[i].Action_Required = complete_finfinity[j].Action_Required
          /\ complete_finfinity[i].Finfinity_Status # complete_finfinity[j].Finfinity_Status

\* C15: the rows of the action breakdown are in non-increasing priority: an action
\* whose rows have a higher priority never comes after one whose rows have a lower
\* priority.
C15_ActionBreakdownOrder ==
    Ok =>
       /\ {action_summary[k].Action_Required : k \in DOMAIN action_summary}
             = ActionsOf(complete_finfinity)
       /\ \A k, l \in DOMAIN action_summary :
             k < l =>
                \A i, j \in DOMAIN complete_finfinity :
                   (/\ complete_finfinity[i].Action_Required
                          = action_summary[k].Action_Required
                    /\ complete_finfinity[j].Action_Required
                          = action_summary[l].Action_Required)
                      => complete_finfinity[i].Priority >= complete_finfinity[j].Priority

\* a breakdown whose priority order is not the alphabetical order of its actions
C15_Witness ==
    /\ Ok
    /\ Len(action_summary) >= 2
    /\ action_summary[1].Action_Required = "INVESTIGATE / CREATE ORDER"
    /\ action_summary[1].Priority = 4
    /\ action_summary[2].Action_Required = "INVESTIGATE"
    /\ action_summary[2].Priority = 3

\* C16: rules 8 and 9 are unreachable: whenever the gateway status canonicalizes to
\* FAILED the result is PAYMENT_FAILED / IGNORE / 1 whatever the order and vault
\* statuses, and ORDER_ACTIVE_PAYMENT_FAILED and INCONSISTENT_STATE are never returned.
C16_SpecificFailuresUnreachable ==
    /\ CallDone =>
          /\ CanonGateway = FAILED => classified = <<"PAYMENT_FAILED", "IGNORE", 1>>
          /\ classified[1] \notin {"ORDER_ACTIVE_PAYMENT_FAILED", "INCONSISTENT_STATE"}
    /\ Ok =>
          \A i \in DOMAIN complete_finfinity :
             LET r == complete_finfinity[i]
             IN /\ upper(strip(r.Cashfree_Status)) = FAILED =>
                      /\ r.Decision_Category = "PAYMENT_FAILED"
                      /\ r.Action_Required = "IGNORE"
                      /\ r.Priority = 1
                /\ r.Decision_Category
                      \notin {"ORDER_ACTIVE_PAYMENT_FAILED", "INCONSISTENT_STATE"}

\* a call that satisfies rule 8's test and is answered by rule 5
C16_Witness ==
    /\ CallDone
    /\ CanonOrder = ACTIVE /\ CanonGateway = FAILED
    /\ RuleHolds(8, CanonOrder, CanonGateway, CanonVault)
    /\ classified = <<"PAYMENT_FAILED", "IGNORE", 1>>

====
